---- MODULE Spec2Model ----
(***************************************************************************)
(* A model of bot.py: the locked-content lifecycle of the chat bot.        *)
(*                                                                         *)
(*   SECRET_STORE          the process-wide dict  id -> payload            *)
(*   CONFIG                UnlockConfig (allowed_role_id)                  *)
(*   trade_ephemeral_cmd   the slash command: validate, calculate, store,  *)
(*                         post the locked message with its UnlockView     *)
(*   unlock_button         the button handler: gate, lookup, render        *)
(*                                                                         *)
(* Python floats are modelled as exact rationals <<n, d>> in lowest terms  *)
(* with d > 0 (NaN and the infinities are not part of the model).  Python  *)
(* None is the empty sequence <<>> and a present optional value x is <<x>>.*)
(* Text is modelled as a sequence of parts, one part per literal piece or  *)
(* interpolated value of the f-string that builds it.                      *)
(***************************************************************************)
EXTENDS Integers, Sequences, FiniteSets, TLC

VARIABLES SECRET_STORE, CONFIG, posted, revealed, last, probe, sending

vars == <<SECRET_STORE, CONFIG, posted, revealed, last, probe, sending>>

None == <<>>
Some(x) == <<x>>

(***************************************************************************)
(* Rational arithmetic standing for Python's float arithmetic.             *)
(***************************************************************************)
Abs(n) == IF n < 0 THEN -n ELSE n

RECURSIVE GCD(_, _)
GCD(a, b) == IF b = 0 THEN a ELSE GCD(b, a % b)

Norm(n, d) ==
    LET s == IF d < 0 THEN -1 ELSE 1
        g == GCD(Abs(n), Abs(d))
    IN  <<(s * n) \div g, (s * d) \div g>>

R(n) == <<n, 1>>
RSub(a, b) == Norm(a[1] * b[2] - b[1] * a[2], a[2] * b[2])
RMul(a, b) == Norm(a[1] * b[1], a[2] * b[2])
RDiv(a, b) == Norm(a[1] * b[2], a[2] * b[1])
RAbs(a) == <<Abs(a[1]), a[2]>>
RLt(a, b) == a[1] * b[2] < b[1] * a[2]
RLe(a, b) == a[1] * b[2] <= b[1] * a[2]
RGe(a, b) == RLe(b, a)
RGt(a, b) == RLt(b, a)

(***************************************************************************)
(* PositionMetrics (bot.py 50-57) and PositionCalculator (bot.py 72-129).  *)
(* A call either raises ValueError(error) or returns value.                *)
(***************************************************************************)
PositionMetrics(balance, position_size, quantity, risk_amount, risk_percentage) ==
    [balance |-> balance, position_size |-> position_size, quantity |-> quantity,
     risk_amount |-> risk_amount, risk_percentage |-> risk_percentage]

Raise(msg) == [ok |-> FALSE, error |-> msg, value |-> None]
Return(v) == [ok |-> TRUE, error |-> "", value |-> Some(v)]

(* Mutant of calculate_risk_percentage_from_prices: the risk is taken     *)
(* relative to the stop loss instead of the entry.                         *)
calculate_risk_percentage_from_stop(entry, stop_loss) ==
    IF RLe(entry, R(0))
    THEN Raise("Entry price must be greater than zero")
    ELSE Return(RMul(RDiv(RAbs(RSub(entry, stop_loss)), stop_loss), R(100)))

calculate_risk_percentage_from_prices(entry, stop_loss) ==
    IF RLe(entry, R(0))
    THEN Raise("Entry price must be greater than zero")
    ELSE Return(RMul(RDiv(RAbs(RSub(entry, stop_loss)), entry), R(100)))

(* Mutant of calculate_position: the leverage check precedes the price checks. *)
calculate_position_reordered(balance, entry_price, stop_loss, risk_percentage, leverage, quantity) ==
    IF RLe(balance, R(0)) THEN Raise("Balance must be greater than zero")
    ELSE IF RLe(leverage, R(0)) THEN Raise("Leverage must be greater than zero")
    ELSE IF RLe(entry_price, R(0)) THEN Raise("Entry price must be greater than zero")
    ELSE IF RLe(stop_loss, R(0)) THEN Raise("Stop loss must be greater than zero")
    ELSE IF entry_price = stop_loss THEN Raise("Entry and stop loss must be different")
    ELSE IF RLt(risk_percentage, R(0)) \/ RGt(risk_percentage, R(100))
         THEN Raise("Risk percentage must be between 0 and 100")
    ELSE IF quantity # None /\ RLe(quantity[1], R(0))
         THEN Raise("Quantity must be greater than zero")
    ELSE
      LET position_size == RMul(balance, leverage)
          price_risk_percentage == RDiv(RAbs(RSub(entry_price, stop_loss)), entry_price)
          risk_amount == RMul(position_size, price_risk_percentage)
          calculated_quantity == IF quantity = None
                                 THEN RDiv(position_size, entry_price)
                                 ELSE quantity[1]
      IN  Return(PositionMetrics(balance, position_size, calculated_quantity, risk_amount,
                                 RMul(RDiv(risk_amount, balance), R(100))))

calculate_position(balance, entry_price, stop_loss, risk_percentage, leverage, quantity) ==
    IF RLe(balance, R(0)) THEN Raise("Balance must be greater than zero")
    ELSE IF RLe(entry_price, R(0)) THEN Raise("Entry price must be greater than zero")
    ELSE IF RLe(stop_loss, R(0)) THEN Raise("Stop loss must be greater than zero")
    ELSE IF entry_price = stop_loss THEN Raise("Entry and stop loss must be different")
    ELSE IF RLe(leverage, R(0)) THEN Raise("Leverage must be greater than zero")
    ELSE IF RLt(risk_percentage, R(0)) \/ RGt(risk_percentage, R(100))
         THEN Raise("Risk percentage must be between 0 and 100")
    ELSE IF quantity # None /\ RLe(quantity[1], R(0))
         THEN Raise("Quantity must be greater than zero")
    ELSE
      LET position_size == RMul(balance, leverage)
          price_risk_percentage == RDiv(RAbs(RSub(entry_price, stop_loss)), entry_price)
          risk_amount == RMul(position_size, price_risk_percentage)
          calculated_quantity == IF quantity = None
                                 THEN RDiv(position_size, entry_price)
                                 ELSE quantity[1]
      IN  Return(PositionMetrics(balance, position_size, calculated_quantity, risk_amount,
                                 RMul(RDiv(risk_amount, balance), R(100))))

(***************************************************************************)
(* Formatting utilities (bot.py 134-153).  A formatted number is the part  *)
(* [k |-> "num", text |-> <format>, val |-> <<m>>] where m is the value    *)
(* rounded (half to even, as Python's float formatting rounds an exactly   *)
(* representable tie) to the format's number of decimals and scaled by     *)
(* that power of ten: the digits the string shows.                         *)
(***************************************************************************)
Part(k, text, val) == [k |-> k, text |-> text, val |-> val]
Lit(text) == Part("lit", text, <<>>)

RoundScaled(q, scale) ==
    LET n == q[1] * scale
        d == q[2]
        fl == n \div d
        rem == n % d
    IN  IF 2 * rem < d THEN fl
        ELSE IF 2 * rem > d THEN fl + 1
        ELSE IF fl % 2 = 0 THEN fl ELSE fl + 1

format_currency(value) ==
    IF RGe(value, R(1000))
    THEN Part("num", "${:,.1f}", <<RoundScaled(value, 10)>>)
    ELSE Part("num", "${:.2f}", <<RoundScaled(value, 100)>>)

format_percentage(value) == Part("num", "{:.1f}%", <<RoundScaled(value, 10)>>)

format_quantity(value) ==
    IF RGe(value, R(1000))
    THEN Part("num", "{:.2f}K", <<RoundScaled(RDiv(value, R(1000)), 100)>>)
    ELSE IF RGe(value, R(1))
    THEN Part("num", "{:.2f}", <<RoundScaled(value, 100)>>)
    ELSE Part("num", "{:.4f}", <<RoundScaled(value, 10000)>>)

(* str(float) inside an f-string: the shortest repr, one string per value. *)
Repr(value) == Part("num", "repr", value)

(***************************************************************************)
(* str.upper() on the strings the model uses.                              *)
(***************************************************************************)
Upper(s) ==
    CASE s = "buy" -> "BUY"
      [] s = "Buy" -> "BUY"
      [] s = "sell" -> "SELL"
      [] s = "Sell" -> "SELL"
      [] s = "hold" -> "HOLD"
      [] s = "btc" -> "BTC"
      [] s = "xmr" -> "XMR"
      [] OTHER -> s

(***************************************************************************)
(* discord.Embed as the record of what was set on it, and EmbedBuilder     *)
(* (bot.py 163-251).  now is the value of discord.utils.utcnow().          *)
(***************************************************************************)
Embed(title, description, color, fields, footer, image, timestamp) ==
    [title |-> title, description |-> description, color |-> color, fields |-> fields,
     footer |-> footer, image |-> image, timestamp |-> timestamp]

Field(name, value, inline) == [name |-> name, value |-> value, inline |-> inline]

(* Mutant of build_trade_details_embed: the description carries the render time. *)
build_trade_details_embed_stamped(symbol, entry, stop_loss, status, risk_percentage, order_type, now) ==
    LET emoji == IF Upper(order_type) = "BUY" THEN ":Long:" ELSE ":Short:"
        description == <<Lit(emoji), Lit(" **"), Lit(Upper(symbol)), Lit("** | **Entry:** "),
                         Repr(entry), Lit(" | **SL:** "), Repr(stop_loss), Lit(" (<= "),
                         format_percentage(risk_percentage), Lit(") "),
                         Part("clock", "{}", <<now>>)>>
        color == IF Upper(order_type) = "BUY" THEN <<59, 165, 92>> ELSE <<88, 101, 242>>
        disclaimer == <<Lit("> **Disclaimer** > Challenge trades may involve higher risks.")>>
    IN  Embed(None, description, color, <<Field("", disclaimer, FALSE)>>,
              <<Lit("Status: "), Lit(status)>>, None, Some(now))

build_trade_details_embed(symbol, entry, stop_loss, status, risk_percentage, order_type, now) ==
    LET emoji == IF Upper(order_type) = "BUY" THEN ":Long:" ELSE ":Short:"
        description == <<Lit(emoji), Lit(" **"), Lit(Upper(symbol)), Lit("** | **Entry:** "),
                         Repr(entry), Lit(" | **SL:** "), Repr(stop_loss), Lit(" (<= "),
                         format_percentage(risk_percentage), Lit(")")>>
        color == IF Upper(order_type) = "BUY" THEN <<59, 165, 92>> ELSE <<88, 101, 242>>
        disclaimer == <<Lit("> **Disclaimer** > Challenge trades may involve higher risks.")>>
    IN  Embed(None, description, color, <<Field("", disclaimer, FALSE)>>,
              <<Lit("Status: "), Lit(status)>>, None, Some(now))

build_image_embed(image_url) ==
    Embed(None, <<>>, None, <<>>, <<>>, Some(image_url), None)

PositionText(m) ==
    <<Lit("Balance: "), format_currency(m.balance),
      Lit("Position: "), format_currency(m.position_size),
      Lit("Quantity: "), format_quantity(m.quantity),
      Lit("Risk: "), format_currency(m.risk_amount), Lit(" ("),
      format_percentage(m.risk_percentage), Lit(")")>>

(* Returns None or Some(embed). *)
build_position_overview_embed(trader_metrics, user_metrics) ==
    IF trader_metrics = None /\ user_metrics = None THEN None
    ELSE
      LET trader_field == IF trader_metrics # None
                          THEN <<Field("Trader Position", PositionText(trader_metrics[1]), TRUE)>>
                          ELSE <<>>
          user_field == IF user_metrics # None
                        THEN <<Field("Your Position", PositionText(user_metrics[1]), TRUE)>>
                        ELSE <<>>
      IN  Some(Embed(Some("Challenge - Position Overview"), <<>>, <<252, 194, 0>>,
                     trader_field \o user_field,
                     <<Lit("Beta - balance may not be updated yet. Use as guidance only.")>>,
                     None, None))

(* UIComponentBuilder.build_button_row: two disabled display-only buttons. *)
build_button_row == Some([type |-> "ButtonRow", locked_message_id |-> None])

(***************************************************************************)
(* The payloads SECRET_STORE holds: a str, the legacy dict, the enhanced   *)
(* dict (bot.py 586-598).                                                  *)
(***************************************************************************)
PlainText(body) == [str |-> body]

LegacyTrade(user, symbol, entry, sl, percentage_text, emoji, image_url, status) ==
    [type |-> "trade_ephemeral", user |-> user, symbol |-> symbol, entry |-> entry, sl |-> sl,
     percentage_text |-> percentage_text, emoji |-> emoji, image_url |-> image_url,
     status |-> status]

EnhancedTrade(user_id, symbol, entry, sl, order_type, status, price_risk_percentage, trader_metrics, user_metrics, image_url) ==
    [type |-> "trade_ephemeral_enhanced", user_id |-> user_id, symbol |-> symbol,
     entry |-> entry, sl |-> sl, order_type |-> order_type, status |-> status,
     price_risk_percentage |-> price_risk_percentage, trader_metrics |-> trader_metrics,
     user_metrics |-> user_metrics, image_url |-> image_url]

IsDict(secret) == "type" \in DOMAIN secret

(* Python truthiness of a stored value: "" is falsy, the dicts are non-empty. *)
Truthy(secret) == IF IsDict(secret) THEN TRUE ELSE secret.str # ""

(***************************************************************************)
(* interaction.response.send_message(...)                                  *)
(***************************************************************************)
Message(content, embeds, view, ephemeral) ==
    [content |-> content, embeds |-> embeds, view |-> view, ephemeral |-> ephemeral]

Mention(user_id) ==
    IF user_id # 0 THEN <<Lit("<@"), Part("id", "{}", <<user_id>>), Lit(">")>> ELSE <<>>

(***************************************************************************)
(* The legacy emoji token (bot.py 378-394).  A token is a sequence of      *)
(* one-character strings; int() is modelled on digit strings.              *)
(***************************************************************************)
Digits == <<"0", "1", "2", "3", "4", "5", "6", "7", "8", "9">>

IsDigit(c) == \E k \in 1..10 : Digits[k] = c
DigitVal(c) == (CHOOSE k \in 1..10 : Digits[k] = c) - 1

Colons(chars) == {k \in 1..Len(chars) : chars[k] = ":"}

IsInt(chars) == Len(chars) > 0 /\ \A k \in 1..Len(chars) : IsDigit(chars[k])

RECURSIVE IntOf(_)
IntOf(chars) ==
    IF chars = <<>> THEN 0
    ELSE 10 * IntOf(SubSeq(chars, 1, Len(chars) - 1)) + DigitVal(chars[Len(chars)])

EmojiStr(emoji, symbol) ==
    IF Colons(emoji) # {}
    THEN IF Cardinality(Colons(emoji)) = 1
         THEN LET c == CHOOSE k \in Colons(emoji) : TRUE
              IN  Part("emoji", "<:{}:{}>",
                       <<SubSeq(emoji, 1, c - 1), SubSeq(emoji, c + 1, Len(emoji))>>)
         ELSE Part("emoji", "{}", <<emoji>>)
    ELSE IF IsInt(emoji)
         THEN Part("emoji", "<:{symbol}:{int}>", <<<<symbol>>, <<IntOf(emoji)>>>>)
         ELSE Part("emoji", "{}", <<emoji>>)

(***************************************************************************)
(* UnlockView.unlock_button (bot.py 296-446) as a function of what it      *)
(* reads: the store, the config, the view's locked_message_id, the         *)
(* pressing user and the clock.  It returns the store it leaves, the       *)
(* terminal outcome, whether SECRET_STORE.get ran, what the lookup         *)
(* returned, and the one message it sends.                                 *)
(***************************************************************************)
Pressed(store, outcome, looked_up, secret, response) ==
    [store |-> store, outcome |-> outcome, looked_up |-> looked_up, secret |-> secret,
     response |-> response]

(* Mutant of Get: dict.pop(key, None), a reveal that consumes the payload. *)
Get_pop(store, key) == [value |-> store[key], store |-> [store EXCEPT ![key] = None]]

(* dict.get(key): the value or None, and the dict as the call leaves it. *)
Get(store, key) == [value |-> store[key], store |-> store]

DeniedMessage ==
    Message(<<Lit("You don't have permission to unlock this content.")>>, <<>>, None, TRUE)

NotFoundMessage ==
    Message(<<Lit("Sorry, I can't find the content for this message (it may have expired).")>>,
            <<>>, None, TRUE)

(* Mutant of has_role: any guild member passes, whatever roles it holds. *)
has_role_any_member(config, member) == member.is_member

has_role(config, member) ==
    IF member.is_member
    THEN \E r \in member.roles : r = config.allowed_role_id[1]
    ELSE FALSE

(* Mutant of RenderEnhanced: the image embed is appended before the overview. *)
RenderEnhanced_image_first(trade_data, now) ==
    LET user_mention == Mention(trade_data.user_id)
        trade_embed == build_trade_details_embed(trade_data.symbol, trade_data.entry,
                           trade_data.sl, trade_data.status,
                           trade_data.price_risk_percentage, trade_data.order_type, now)
        position_embed == build_position_overview_embed(trade_data.trader_metrics,
                                                        trade_data.user_metrics)
        image_url == trade_data.image_url
        image_embeds == IF image_url # None /\ image_url[1] # ""
                        THEN <<build_image_embed(image_url[1])>>
                        ELSE <<>>
    IN  Message(user_mention, <<trade_embed>> \o image_embeds \o position_embed,
                build_button_row, TRUE)

RenderEnhanced(trade_data, now) ==
    LET user_mention == Mention(trade_data.user_id)
        trade_embed == build_trade_details_embed(trade_data.symbol, trade_data.entry,
                           trade_data.sl, trade_data.status,
                           trade_data.price_risk_percentage, trade_data.order_type, now)
        position_embed == build_position_overview_embed(trade_data.trader_metrics,
                                                        trade_data.user_metrics)
        image_url == trade_data.image_url
        image_embeds == IF image_url # None /\ image_url[1] # ""
                        THEN <<build_image_embed(image_url[1])>>
                        ELSE <<>>
    IN  Message(user_mention, <<trade_embed>> \o position_embed \o image_embeds,
                build_button_row, TRUE)

RenderLegacy(trade_data, now) ==
    LET user_mention == Mention(trade_data.user)
        emoji == trade_data.emoji
        symbol == trade_data.symbol
        emoji_parts == IF emoji # None /\ emoji[1] # <<>>
                       THEN <<EmojiStr(emoji[1], symbol), Lit(" ")>>
                       ELSE <<>>
        description == emoji_parts \o
                       <<Lit("**"), Lit(Upper(symbol)), Lit("**"), Lit(" | "),
                         Lit("**Entry:** "), Lit(trade_data.entry), Lit(" | "),
                         Lit("**SL:** "), Lit(trade_data.sl), Lit(" "),
                         Lit(trade_data.percentage_text)>>
        disclaimer == <<Lit("**Disclaimer** Challenge trades may involve higher risks.")>>
        footer == <<Lit("Status: "), Lit(trade_data.status), Lit(" - "),
                    Part("clock", "format_dt:f", <<now>>)>>
        image_url == trade_data.image_url
        image == IF image_url # None /\ image_url[1] # "" THEN image_url ELSE None
    IN  Message(user_mention,
                <<Embed(None, description, <<59, 165, 92>>, <<Field("", disclaimer, FALSE)>>,
                        footer, image, Some(now))>>,
                None, TRUE)

RenderPlain(secret, user, now) ==
    Message(<<>>,
            <<Embed(Some("Unlocked Content"), <<Lit(secret.str)>>, <<46, 204, 113>>, <<>>,
                    <<Lit("Unlocked by "), Part("user", user.name, <<>>)>>, None, Some(now))>>,
            None, TRUE)

(* Mutant of unlock_button: the lookup runs before the role gate. *)
unlock_button_lookup_first(store, config, locked_message_id, user, now) ==
    LET got == Get(store, locked_message_id)
        secret == got.value
    IN  IF secret = None \/ ~Truthy(secret[1])
        THEN Pressed(got.store, "NotFound", TRUE, secret, NotFoundMessage)
        ELSE IF config.allowed_role_id # None /\ ~has_role(config, user)
        THEN Pressed(got.store, "Denied", TRUE, secret, DeniedMessage)
        ELSE IF IsDict(secret[1]) /\ secret[1].type = "trade_ephemeral_enhanced"
        THEN Pressed(got.store, "Rendered", TRUE, secret, RenderEnhanced(secret[1], now))
        ELSE IF IsDict(secret[1]) /\ secret[1].type = "trade_ephemeral"
        THEN Pressed(got.store, "Rendered", TRUE, secret, RenderLegacy(secret[1], now))
        ELSE Pressed(got.store, "Rendered", TRUE, secret, RenderPlain(secret[1], user, now))

unlock_button(store, config, locked_message_id, user, now) ==
    IF config.allowed_role_id # None /\ ~has_role(config, user)
    THEN Pressed(store, "Denied", FALSE, None, DeniedMessage)
    ELSE
      LET got == Get(store, locked_message_id)
          secret == got.value
      IN  IF secret = None \/ ~Truthy(secret[1])
          THEN Pressed(got.store, "NotFound", TRUE, secret, NotFoundMessage)
          ELSE IF IsDict(secret[1]) /\ secret[1].type = "trade_ephemeral_enhanced"
          THEN Pressed(got.store, "Rendered", TRUE, secret, RenderEnhanced(secret[1], now))
          ELSE IF IsDict(secret[1]) /\ secret[1].type = "trade_ephemeral"
          THEN Pressed(got.store, "Rendered", TRUE, secret, RenderLegacy(secret[1], now))
          ELSE Pressed(got.store, "Rendered", TRUE, secret,
                       RenderPlain(secret[1], user, now))

(***************************************************************************)
(* trade_ephemeral_cmd (bot.py 486-623) as a function of what it reads:    *)
(* the store, interaction.id, the command's parameters, and net, the fate  *)
(* of its successive send_message calls (net[k] is TRUE when the k-th call *)
(* is delivered, FALSE when it raises discord.HTTPException).              *)
(* It returns the store it leaves, whether line 602 wrote to it, the       *)
(* messages it passed to send_message in order, the id of the UnlockView   *)
(* that reached the channel (if any), and whether an exception escaped.    *)
(***************************************************************************)
Args(user, symbol, entry, sl, order_type, status, trader_balance, risk_percentage, leverage, quantity, image_url) ==
    [user |-> user, symbol |-> symbol, entry |-> entry, sl |-> sl,
     order_type |-> order_type, status |-> status, trader_balance |-> trader_balance,
     risk_percentage |-> risk_percentage, leverage |-> leverage, quantity |-> quantity,
     image_url |-> image_url]

Handled(store, wrote, calls, view, escaped) ==
    [store |-> store, wrote |-> wrote, calls |-> calls, view |-> view, escaped |-> escaped]

ErrorMessage(text) == Message(<<Lit(text)>>, <<>>, None, TRUE)

UnlockView(locked_message_id) ==
    Some([type |-> "UnlockView", locked_message_id |-> Some(locked_message_id)])

(* Mutant of Validate: the order type is not checked. *)
Validate_any_order(a) ==
    IF RLe(a.entry, R(0)) THEN Some("Entry price must be greater than zero.")
    ELSE IF RLe(a.sl, R(0)) THEN Some("Stop loss must be greater than zero.")
    ELSE IF a.entry = a.sl THEN Some("Entry and stop loss must be different.")
    ELSE IF a.trader_balance # None /\ RLe(a.trader_balance[1], R(0))
         THEN Some("Trader balance must be greater than zero.")
    ELSE IF RLt(a.risk_percentage, R(0)) \/ RGt(a.risk_percentage, R(100))
         THEN Some("Risk percentage must be between 0 and 100.")
    ELSE IF RLe(a.leverage, R(0)) THEN Some("Leverage must be greater than zero.")
    ELSE IF a.quantity # None /\ RLe(a.quantity[1], R(0))
         THEN Some("Quantity must be greater than zero.")
    ELSE None

(* Mutant of Validate: the leverage is not checked. *)
Validate_no_leverage(a) ==
    IF RLe(a.entry, R(0)) THEN Some("Entry price must be greater than zero.")
    ELSE IF RLe(a.sl, R(0)) THEN Some("Stop loss must be greater than zero.")
    ELSE IF a.entry = a.sl THEN Some("Entry and stop loss must be different.")
    ELSE IF a.trader_balance # None /\ RLe(a.trader_balance[1], R(0))
         THEN Some("Trader balance must be greater than zero.")
    ELSE IF RLt(a.risk_percentage, R(0)) \/ RGt(a.risk_percentage, R(100))
         THEN Some("Risk percentage must be between 0 and 100.")
    ELSE IF a.quantity # None /\ RLe(a.quantity[1], R(0))
         THEN Some("Quantity must be greater than zero.")
    ELSE IF Upper(a.order_type) \notin {"BUY", "SELL"}
         THEN Some("Invalid order type. Please use BUY or SELL.")
    ELSE None

(* The parameter checks of bot.py 504-560, in order: None when all pass. *)
Validate(a) ==
    IF RLe(a.entry, R(0)) THEN Some("Entry price must be greater than zero.")
    ELSE IF RLe(a.sl, R(0)) THEN Some("Stop loss must be greater than zero.")
    ELSE IF a.entry = a.sl THEN Some("Entry and stop loss must be different.")
    ELSE IF a.trader_balance # None /\ RLe(a.trader_balance[1], R(0))
         THEN Some("Trader balance must be greater than zero.")
    ELSE IF RLt(a.risk_percentage, R(0)) \/ RGt(a.risk_percentage, R(100))
         THEN Some("Risk percentage must be between 0 and 100.")
    ELSE IF RLe(a.leverage, R(0)) THEN Some("Leverage must be greater than zero.")
    ELSE IF a.quantity # None /\ RLe(a.quantity[1], R(0))
         THEN Some("Quantity must be greater than zero.")
    ELSE IF Upper(a.order_type) \notin {"BUY", "SELL"}
         THEN Some("Invalid order type. Please use BUY or SELL.")
    ELSE None

(* Mutant of SendInTry: no handler catches the failure of the send. *)
SendInTry_uncaught(store, wrote, msg, view, net) ==
    Handled(store, wrote, <<msg>>, IF net[1] THEN view ELSE None, ~net[1])

(* A send_message inside the try block: when it raises, the handler's     *)
(* `except Exception` clause sends the generic message with a second call. *)
SendInTry(store, wrote, msg, view, net) ==
    IF net[1]
    THEN Handled(store, wrote, <<msg>>, view, FALSE)
    ELSE Handled(store, wrote,
                 <<msg, Message(<<Lit("An unexpected error occurred: "), Lit("HTTPException")>>,
                                <<>>, None, TRUE)>>,
                 None, ~net[2])

(* The send_message of the `except ValueError` clause: nothing catches it. *)
SendInExcept(store, text, net) ==
    Handled(store, FALSE, <<Message(<<Lit("Error: "), Lit(text)>>, <<>>, None, TRUE)>>, None,
            ~net[1])

(* Mutant of TradeData: the viewer's metrics are left out of the dict. *)
TradeData_no_user_metrics(a, price_risk_percentage, trader_metrics) ==
    LET status_text == IF a.status # None /\ a.status[1] # "" THEN a.status[1] ELSE "Active"
    IN  EnhancedTrade(a.user, a.symbol, a.entry, a.sl, Upper(a.order_type), status_text,
                      price_risk_percentage, trader_metrics, None, a.image_url)

(* The dict of bot.py 581-598; user_metrics is trader_metrics (line 581). *)
TradeData(a, price_risk_percentage, trader_metrics) ==
    LET user_metrics == trader_metrics
        status_text == IF a.status # None /\ a.status[1] # "" THEN a.status[1] ELSE "Active"
    IN  EnhancedTrade(a.user, a.symbol, a.entry, a.sl, Upper(a.order_type), status_text,
                      price_risk_percentage, trader_metrics, user_metrics, a.image_url)

trade_ephemeral_cmd(store, unique_id, a, net) ==
    LET invalid == Validate(a)
    IN  IF invalid # None
        THEN SendInTry(store, FALSE, ErrorMessage(invalid[1]), None, net)
        ELSE
          LET price_risk == calculate_risk_percentage_from_prices(a.entry, a.sl)
              position == IF a.trader_balance # None
                          THEN calculate_position(a.trader_balance[1], a.entry, a.sl,
                                                  a.risk_percentage, a.leverage, a.quantity)
                          ELSE Return(R(0))
          IN  IF ~price_risk.ok THEN SendInExcept(store, price_risk.error, net)
              ELSE IF ~position.ok THEN SendInExcept(store, position.error, net)
              ELSE
                LET trader_metrics == IF a.trader_balance # None THEN position.value ELSE None
                    trade_data == TradeData(a, price_risk.value[1], trader_metrics)
                    stored == [store EXCEPT ![unique_id] = Some(trade_data)]
                IN  SendInTry(stored, TRUE,
                              Message(Mention(a.user) \o
                                      <<Lit(" Press the button to unlock the content...")>>,
                                      <<>>, UnlockView(unique_id), TRUE),
                              Some(unique_id), net)

(***************************************************************************)
(* Bounds and input sets.                                                  *)
(***************************************************************************)
MaxId == 1

Ids == 1..MaxId

(* Two readings of discord.utils.utcnow(). *)
Clock == {1, 2}

(* CONFIG as deployed: no restriction, or the id of the required role. *)
Configs == {[allowed_role_id |-> None], [allowed_role_id |-> Some(11)]}

(* interaction.user: a bare discord.User, or a discord.Member with roles. *)
Users ==
    {[name |-> "user", is_member |-> FALSE, roles |-> {}],
     [name |-> "guest", is_member |-> TRUE, roles |-> {12}],
     [name |-> "trader", is_member |-> TRUE, roles |-> {11, 12}]}

Nets == {<<TRUE, TRUE>>, <<FALSE, TRUE>>, <<FALSE, FALSE>>}

(* The invocations of the command: the end-to-end scenario of the spec     *)
(* (entry 100, sl 95, BUY, balance 1000, risk 25, leverage 5) and every    *)
(* invocation that differs from it in one parameter.                       *)
Base == Args(7, "btc", R(100), R(95), "buy", None, Some(R(1000)), R(25), R(5), None, None)

Alternatives ==
    {<<"entry", R(0)>>, <<"sl", R(0)>>, <<"sl", R(100)>>, <<"order_type", "SELL">>,
     <<"order_type", "hold">>, <<"trader_balance", None>>, <<"trader_balance", Some(R(0))>>,
     <<"risk_percentage", R(-1)>>, <<"risk_percentage", R(101)>>, <<"leverage", R(0)>>,
     <<"quantity", Some(R(0))>>, <<"quantity", Some(R(2))>>, <<"image_url", Some("img")>>,
     <<"status", Some("Filled")>>}

CmdArgs == {Base} \cup {[Base EXCEPT ![e[1]] = e[2]] : e \in Alternatives}

(* Payloads written by the commands that store a str or the legacy dict;  *)
(* those commands are not in bot.py, only their reader is.                 *)
LegacyPayloads ==
    <<PlainText("hello"),
      PlainText(""),
      LegacyTrade(7, "xmr", "150.5", "140", "(<= 7%)", Some(<<"u", "p", ":", "4", "2">>),
                  Some("img"), "Active")>>

(***************************************************************************)
(* The state machine.                                                      *)
(*   posted    the ids whose UnlockView reached the channel                *)
(*   revealed  per id, the user and the clock-free response of the latest  *)
(*             Rendered press since the last write to that id, and whether *)
(*             it came after an earlier such press (by the same user or by *)
(*             another)                                                    *)
(*   last      the latest event with its inputs and what the handler did   *)
(*   probe     a direct call of a pure function (PureSpec only)            *)
(*   sending   the invocation whose handler is suspended at the await of   *)
(*             its send_message (OrderSpec only)                           *)
(***************************************************************************)
(* A response without its clock-dependent fields: the embed timestamp and  *)
(* the formatted time in the legacy footer.                                *)
ClockFreeParts(parts) == SelectSeq(parts, LAMBDA p : p.text # "format_dt:f")

ClockFreeEmbed(e) ==
    [e EXCEPT !.timestamp = None, !.footer = ClockFreeParts(e.footer)]

ClockFree(msg) ==
    [msg EXCEPT !.embeds = [k \in 1..Len(msg.embeds) |-> ClockFreeEmbed(msg.embeds[k])]]

Init ==
    /\ SECRET_STORE = [i \in Ids |-> None]
    /\ CONFIG \in Configs
    /\ posted = {}
    /\ revealed = [i \in Ids |-> None]
    /\ last = [kind |-> "init"]
    /\ probe = [fn |-> "none"]
    /\ sending = None

Invoke(id, a, net) ==
    \E h \in {trade_ephemeral_cmd(SECRET_STORE, id, a, net)} :
        /\ SECRET_STORE' = h.store
        /\ posted' = IF h.view # None THEN posted \cup {h.view[1]} ELSE posted
        /\ revealed' = IF h.wrote THEN [revealed EXCEPT ![id] = None] ELSE revealed
        /\ last' = [kind |-> "cmd", id |-> id, args |-> a, net |-> net, calls |-> h.calls,
                    wrote |-> h.wrote, view |-> h.view, escaped |-> h.escaped]
        /\ UNCHANGED <<CONFIG, probe, sending>>

Command == \E id \in Ids, a \in CmdArgs, net \in Nets : Invoke(id, a, net)

(* An invocation that passes the parameter checks and is delivered. *)
Post == \E id \in Ids, a \in {b \in CmdArgs : Validate(b) = None} :
            Invoke(id, a, <<TRUE, TRUE>>)

Press ==
    \E id \in Ids, user \in Users, now \in Clock :
      \E r \in {unlock_button(SECRET_STORE, CONFIG, id, user, now)} :
        /\ last' = [kind |-> "press", id |-> id, user |-> user, now |-> now,
                    outcome |-> r.outcome, looked_up |-> r.looked_up,
                    secret |-> r.secret, response |-> r.response]
        /\ revealed' = IF r.outcome = "Rendered"
                       THEN [revealed EXCEPT ![id] =
                                Some([user |-> user.name,
                                      response |-> ClockFree(r.response),
                                      after |-> IF revealed[id] = None THEN "none"
                                                ELSE IF revealed[id][1].user = user.name
                                                THEN "same" ELSE "other"])]
                       ELSE revealed
        /\ SECRET_STORE' = r.store
        /\ UNCHANGED <<CONFIG, posted, probe, sending>>

LegacyPut ==
    \E id \in Ids, k \in 1..Len(LegacyPayloads) :
        /\ SECRET_STORE' = [SECRET_STORE EXCEPT ![id] = Some(LegacyPayloads[k])]
        /\ revealed' = [revealed EXCEPT ![id] = None]
        /\ last' = [kind |-> "put", id |-> id]
        /\ UNCHANGED <<CONFIG, posted, probe, sending>>

Next == Command \/ Press \/ LegacyPut

Spec == Init /\ [][Next]_vars

(* The life of a locked message: posted, overwritten, pressed. *)
RevealNext == Post \/ Press \/ LegacyPut

RevealSpec == Init /\ [][RevealNext]_vars

(* The command alone, with every invocation and every fate of its sends. *)
CommandNext == Command

CommandSpec == Init /\ [][CommandNext]_vars

(***************************************************************************)
(* The command as the coroutine it is: the handler runs up to the await of *)
(* its send_message (line 608, or the send of a validation error), is      *)
(* suspended while the request is served, and resumes when the call        *)
(* returns or raises.  While it is suspended the message may already be in *)
(* the channel and its button may be pressed.                              *)
(***************************************************************************)

(* Mutant of StoreAt: the payload is written after the send has returned. *)
StoreAt_after_send(store, h, unique_id, phase) ==
    IF h.wrote /\ phase = "done"
    THEN [store EXCEPT ![unique_id] = h.store[unique_id]]
    ELSE store

(* SECRET_STORE while the handler awaits its send ("await") and once it    *)
(* has returned ("done"): line 602 writes before the await of line 608.    *)
StoreAt(store, h, unique_id, phase) ==
    IF h.wrote
    THEN [store EXCEPT ![unique_id] = h.store[unique_id]]
    ELSE store

(* A valid invocation and an invalid one. *)
OrderArgs == {Base, [Base EXCEPT !.order_type = "hold"]}

Begin ==
    \E id \in Ids, a \in OrderArgs, net \in Nets :
      \E h \in {trade_ephemeral_cmd(SECRET_STORE, id, a, net)} :
        /\ sending = None
        /\ sending' = Some([id |-> id, args |-> a, net |-> net, h |-> h])
        /\ SECRET_STORE' = StoreAt(SECRET_STORE, h, id, "await")
        /\ posted' = IF h.view # None THEN posted \cup {h.view[1]} ELSE posted
        /\ revealed' = IF h.wrote THEN [revealed EXCEPT ![id] = None] ELSE revealed
        /\ last' = [kind |-> "await", id |-> id]
        /\ UNCHANGED <<CONFIG, probe>>

Finish ==
    /\ sending # None
    /\ \E s \in {sending[1]} :
        /\ SECRET_STORE' = StoreAt(SECRET_STORE, s.h, s.id, "done")
        /\ last' = [kind |-> "cmd", id |-> s.id, args |-> s.args, net |-> s.net,
                    calls |-> s.h.calls, wrote |-> s.h.wrote, view |-> s.h.view,
                    escaped |-> s.h.escaped]
    /\ sending' = None
    /\ UNCHANGED <<CONFIG, posted, revealed, probe>>

OrderNext == Begin \/ Finish \/ Press

OrderSpec == Init /\ [][OrderNext]_vars

(***************************************************************************)
(* Direct calls of the pure functions: the initial state draws the call    *)
(* (function and arguments), the one step applies the function.            *)
(***************************************************************************)
Call(fn, in) == [fn |-> fn, in |-> in, done |-> FALSE, out |-> None]

Metrics1 == PositionMetrics(R(1000), R(5000), R(50), R(250), R(25))
Metrics2 == PositionMetrics(R(50), <<25, 1>>, <<1, 4>>, <<5, 4>>, <<5, 2>>)

RiskCalls ==
    {Call("calculate_risk_percentage_from_prices", <<entry, stop_loss>>) :
        entry \in {R(-1), R(0), R(3), R(100)},
        stop_loss \in {R(-1), R(0), R(95), R(100), R(110)}}

PositionCalls ==
    {Call("calculate_position",
          <<balance, entry_price, stop_loss, risk_percentage, leverage, quantity>>) :
        balance \in {R(-1), R(0), R(50), R(1000)},
        entry_price \in {R(0), R(3), R(100)},
        stop_loss \in {R(-1), R(0), R(95), R(100)},
        risk_percentage \in {R(-1), R(0), R(25), R(100), R(101)},
        leverage \in {R(0), <<1, 2>>, R(5)},
        quantity \in {None, Some(R(0)), Some(R(2))}}

RenderCalls ==
    {Call("render",
          <<EnhancedTrade(7, "btc", R(100), R(95), order_type, "Active", R(5),
                          trader_metrics, user_metrics, image_url), now>>) :
        order_type \in {"BUY", "SELL"},
        trader_metrics \in {None, Some(Metrics1)},
        user_metrics \in {None, Some(Metrics1), Some(Metrics2)},
        image_url \in {None, Some("img")},
        now \in Clock}

PureInit ==
    /\ SECRET_STORE = [i \in Ids |-> None]
    /\ CONFIG = [allowed_role_id |-> None]
    /\ posted = {}
    /\ revealed = [i \in Ids |-> None]
    /\ last = [kind |-> "init"]
    /\ probe \in RiskCalls \cup PositionCalls \cup RenderCalls
    /\ sending = None

Applied(out) ==
    /\ probe' = [probe EXCEPT !.done = TRUE, !.out = out]
    /\ UNCHANGED <<SECRET_STORE, CONFIG, posted, revealed, last, sending>>

CallRisk ==
    /\ probe.fn = "calculate_risk_percentage_from_prices"
    /\ ~probe.done
    /\ Applied(calculate_risk_percentage_from_prices(probe.in[1], probe.in[2]))

CallPosition ==
    /\ probe.fn = "calculate_position"
    /\ ~probe.done
    /\ Applied(calculate_position(probe.in[1], probe.in[2], probe.in[3], probe.in[4],
                                  probe.in[5], probe.in[6]))

CallRender ==
    /\ probe.fn = "render"
    /\ ~probe.done
    /\ Applied(RenderEnhanced(probe.in[1], probe.in[2]))

PureNext == CallRisk \/ CallPosition \/ CallRender

PureSpec == PureInit /\ [][PureNext]_vars

(***************************************************************************)
(* Properties of the button press.                                         *)
(***************************************************************************)

(* C1: a button press never changes SECRET_STORE: whatever the outcome of  *)
(* the press (Denied, NotFound, Rendered), the stored ids and the payload  *)
(* under each id are the same after the press as before it.                *)
C1_PressKeepsStore ==
    [][last'.kind = "press" => SECRET_STORE' = SECRET_STORE]_vars

(* A press has rendered the payload that is still stored under its id. *)
C1_Witness ==
    /\ last.kind = "press"
    /\ last.outcome = "Rendered"
    /\ SECRET_STORE[last.id] # None
    /\ SECRET_STORE[last.id] = last.secret

(* The viewer is a guild member holding the role CONFIG requires. *)
HoldsAllowedRole(user) ==
    /\ user.is_member
    /\ CONFIG.allowed_role_id[1] \in user.roles

(* C2: with allowed_role_id unset every press passes the gate; with it set *)
(* to R a press passes iff the viewer is a guild member holding role R,    *)
(* and every other press ends Denied with the private permission-denied    *)
(* notice, without a lookup and without a rendered document.               *)
C2_UnlockGate ==
    last.kind = "press" =>
        /\ CONFIG.allowed_role_id = None => last.outcome # "Denied"
        /\ CONFIG.allowed_role_id # None =>
              (last.outcome # "Denied" <=> HoldsAllowedRole(last.user))
        /\ last.outcome = "Denied" =>
              /\ last.response.content =
                    <<Lit("You don't have permission to unlock this content.")>>
              /\ last.response.ephemeral
              /\ last.response.embeds = <<>>
              /\ ~last.looked_up
              /\ last.secret = None

(* A guild member without the required role was denied. *)
C2_Witness ==
    /\ last.kind = "press"
    /\ CONFIG.allowed_role_id # None
    /\ last.user.is_member
    /\ ~HoldsAllowedRole(last.user)
    /\ last.outcome = "Denied"

(* What SECRET_STORE may hold under one id: nothing, or any payload. *)
Contents ==
    <<None, Some(LegacyPayloads[1]), Some(LegacyPayloads[2]), Some(LegacyPayloads[3]),
      Some(TradeData(Base, R(5), Some(Metrics1))), Some(TradeData(Base, R(5), None))>>

(* C3: the response to an unauthorized press does not depend on the store: *)
(* with anything else (or nothing) stored under the pressed id the same    *)
(* press gives the identical response, and never reads the store.          *)
C3_DenialLeaksNothing ==
    (/\ last.kind = "press"
     /\ CONFIG.allowed_role_id # None
     /\ ~HoldsAllowedRole(last.user)) =>
        \A k \in 1..Len(Contents) :
            LET other == unlock_button([SECRET_STORE EXCEPT ![last.id] = Contents[k]],
                                       CONFIG, last.id, last.user, last.now)
            IN  /\ other.response = last.response
                /\ ~other.looked_up
                /\ ~last.looked_up

(* A viewer who is no guild member pressed on an id that holds a payload. *)
C3_Witness ==
    /\ last.kind = "press"
    /\ CONFIG.allowed_role_id # None
    /\ ~last.user.is_member
    /\ SECRET_STORE[last.id] # None
    /\ last.outcome = "Denied"

(* C4 (as claimed): an authorized press on id i ends NotFound iff nothing  *)
(* is stored under i, and whenever a payload p is stored under i, of any   *)
(* variant and any value, the press finds exactly p and ends Rendered.     *)
C4_StoreRoundTrip ==
    (last.kind = "press" /\ last.outcome # "Denied") =>
        /\ last.outcome = "NotFound" <=> SECRET_STORE[last.id] = None
        /\ SECRET_STORE[last.id] # None =>
              /\ last.outcome = "Rendered"
              /\ last.secret = SECRET_STORE[last.id]

(* A response without the part that names the pressing viewer. *)
WithoutViewer(msg) ==
    [msg EXCEPT !.embeds =
        [k \in 1..Len(msg.embeds) |->
            [msg.embeds[k] EXCEPT !.footer = SelectSeq(msg.embeds[k].footer,
                                                       LAMBDA p : p.k # "user")]]]

(* C5 (as claimed): two presses that both end Rendered for the same id     *)
(* with no write to the id in between, by the same or by different         *)
(* viewers, give identical responses in every clock-independent field.     *)
C5_RevealIdentical ==
    [][\A i \in Ids :
          (revealed[i] # None /\ revealed'[i] # None) =>
              revealed'[i][1].response = revealed[i][1].response]_vars

(* C5 (amended): such presses give identical clock-independent responses   *)
(* when the payload is a trade dict (legacy or enhanced) or the viewer is  *)
(* the same; for a str payload the responses of different viewers are      *)
(* identical but for the footer, which names the pressing viewer.          *)
C5_RevealIdempotent ==
    [][\A i \in Ids :
          (revealed[i] # None /\ revealed'[i] # None) =>
              /\ WithoutViewer(revealed'[i][1].response) =
                     WithoutViewer(revealed[i][1].response)
              /\ (revealed'[i][1].user = revealed[i][1].user \/ IsDict(SECRET_STORE[i][1])) =>
                     revealed'[i][1].response = revealed[i][1].response]_vars

(* A str payload has been revealed to one viewer and then to another. *)
C5_Witness ==
    \E i \in Ids :
        /\ revealed[i] # None
        /\ revealed[i][1].after = "other"
        /\ SECRET_STORE[i] # None
        /\ ~IsDict(SECRET_STORE[i][1])

(***************************************************************************)
(* Properties of the renderer and of the calculator (PureSpec).            *)
(***************************************************************************)

(* What a document is, told from its content. *)
DocKind(e) ==
    IF e.title = Some("Challenge - Position Overview") THEN "overview"
    ELSE IF e.image # None /\ e.description = <<>> /\ e.fields = <<>> THEN "image"
    ELSE IF e.description # <<>> /\ e.footer # <<>> /\ e.footer[1] = Lit("Status: ")
         THEN "details"
    ELSE "other"

FieldNames(e) == [k \in 1..Len(e.fields) |-> e.fields[k].name]

(* C6: rendering an EnhancedTrade payload yields one to three documents in *)
(* the order trade-details, position-overview, image: trade-details always *)
(* first; the overview iff trader_metrics or user_metrics is present, with *)
(* one field per present metrics object, Trader Position before Your       *)
(* Position; the image document iff an image URL is present, always last.  *)
C6_DocumentOrder ==
    (probe.fn = "render" /\ probe.done) =>
        LET p == probe.in[1]
            docs == probe.out.embeds
            metrics == p.trader_metrics # None \/ p.user_metrics # None
            image == p.image_url # None
            kinds == [k \in 1..Len(docs) |-> DocKind(docs[k])]
        IN  /\ Len(docs) \in 1..3
            /\ kinds = <<"details">> \o (IF metrics THEN <<"overview">> ELSE <<>>)
                                     \o (IF image THEN <<"image">> ELSE <<>>)
            /\ metrics =>
                  FieldNames(docs[2]) =
                      (IF p.trader_metrics # None THEN <<"Trader Position">> ELSE <<>>)
                      \o (IF p.user_metrics # None THEN <<"Your Position">> ELSE <<>>)
            /\ image => docs[Len(docs)].image = p.image_url

(* A payload with an image and the viewer's metrics only gave three documents. *)
C6_Witness ==
    /\ probe.fn = "render"
    /\ probe.done
    /\ probe.in[1].trader_metrics = None
    /\ probe.in[1].user_metrics # None
    /\ probe.in[1].image_url # None
    /\ Len(probe.out.embeds) = 3

(* The constraints of calculate_position in the order the claim lists     *)
(* them, each with the message of its error, for the arguments in.         *)
Constraints(in) ==
    <<[holds |-> in[1][1] > 0, error |-> "Balance must be greater than zero"],
      [holds |-> in[2][1] > 0, error |-> "Entry price must be greater than zero"],
      [holds |-> in[3][1] > 0, error |-> "Stop loss must be greater than zero"],
      [holds |-> in[2] # in[3], error |-> "Entry and stop loss must be different"],
      [holds |-> in[5][1] > 0, error |-> "Leverage must be greater than zero"],
      [holds |-> in[4][1] >= 0 /\ in[4][1] <= 100 * in[4][2],
       error |-> "Risk percentage must be between 0 and 100"],
      [holds |-> in[6] = None \/ in[6][1][1] > 0,
       error |-> "Quantity must be greater than zero"]>>

Violated(in) == {k \in 1..Len(Constraints(in)) : ~Constraints(in)[k].holds}

Min(S) == CHOOSE k \in S : \A j \in S : k <= j

(* C7: calculate_position checks balance > 0, entry_price > 0,             *)
(* stop_loss > 0, entry_price != stop_loss, leverage > 0,                  *)
(* 0 <= risk_percentage <= 100 and (when given) quantity > 0 in that       *)
(* order: an input violating some constraint fails with the error of the   *)
(* first one violated and returns no PositionMetrics; an input violating   *)
(* none returns a PositionMetrics.                                         *)
C7_ValidationOrder ==
    (probe.fn = "calculate_position" /\ probe.done) =>
        IF Violated(probe.in) = {}
        THEN probe.out.ok /\ probe.out.value # None
        ELSE /\ ~probe.out.ok
             /\ probe.out.value = None
             /\ probe.out.error = Constraints(probe.in)[Min(Violated(probe.in))].error

(* A call that violates the entry, the leverage and the quantity constraint *)
(* failed on the entry price.                                               *)
C7_Witness ==
    /\ probe.fn = "calculate_position"
    /\ probe.done
    /\ Violated(probe.in) = {2, 5, 7}
    /\ probe.out.error = "Entry price must be greater than zero"

(* The rational a equals n / d. *)
Is(a, n, d) == a[1] * d = n * a[2]

(* |entry - stop| / entry as numerator and denominator, for entry > 0. *)
GapNum(e, s) == Abs(e[1] * s[2] - s[1] * e[2])
GapDen(e, s) == e[1] * s[2]

(* C8: for every valid input calculate_position returns                    *)
(* positionSize = balance * leverage,                                      *)
(* riskAmount = positionSize * |entry - stop| / entry,                     *)
(* quantity = the given quantity, else positionSize / entry, and           *)
(* riskPercentage = riskAmount / balance * 100; and                        *)
(* calculate_risk_percentage_from_prices fails when entry <= 0 and         *)
(* otherwise returns |entry - stop| / entry * 100 (5 for 100 and 95).      *)
C8_Formulas ==
    /\ (probe.fn = "calculate_position" /\ probe.done /\ probe.out.ok) =>
          LET b == probe.in[1]
              e == probe.in[2]
              s == probe.in[3]
              l == probe.in[5]
              q == probe.in[6]
              m == probe.out.value[1]
          IN  /\ m.balance = b
              /\ Is(m.position_size, b[1] * l[1], b[2] * l[2])
              /\ Is(m.risk_amount, b[1] * l[1] * GapNum(e, s), b[2] * l[2] * GapDen(e, s))
              /\ IF q # None THEN m.quantity = q[1]
                 ELSE Is(m.quantity, b[1] * l[1] * e[2], b[2] * l[2] * e[1])
              /\ Is(m.risk_percentage, 100 * l[1] * GapNum(e, s), l[2] * GapDen(e, s))
    /\ (probe.fn = "calculate_risk_percentage_from_prices" /\ probe.done) =>
          LET e == probe.in[1]
              s == probe.in[2]
          IN  /\ probe.out.ok <=> e[1] > 0
              /\ probe.out.ok => Is(probe.out.value[1], 100 * GapNum(e, s), GapDen(e, s))
              /\ (e = R(100) /\ s = R(95)) => probe.out.value = Some(R(5))

(* A valid call with fractional leverage and no quantity returned metrics. *)
C8_Witness ==
    /\ probe.fn = "calculate_position"
    /\ probe.done
    /\ probe.out.ok
    /\ probe.in[5] = <<1, 2>>
    /\ probe.in[2] = R(3)
    /\ probe.in[6] = None

(***************************************************************************)
(* Properties of the command.                                              *)
(***************************************************************************)

(* The preconditions of the command that an invocation fails, each with    *)
(* the message that names it.                                              *)
Failed(a) ==
    {c \in {"Entry price must be greater than zero.",
            "Stop loss must be greater than zero.",
            "Entry and stop loss must be different.",
            "Trader balance must be greater than zero.",
            "Risk percentage must be between 0 and 100.",
            "Leverage must be greater than zero.",
            "Quantity must be greater than zero.",
            "Invalid order type. Please use BUY or SELL."} :
        \/ c = "Entry price must be greater than zero." /\ a.entry[1] <= 0
        \/ c = "Stop loss must be greater than zero." /\ a.sl[1] <= 0
        \/ c = "Entry and stop loss must be different." /\ a.entry = a.sl
        \/ c = "Trader balance must be greater than zero."
              /\ a.trader_balance # None /\ a.trader_balance[1][1] <= 0
        \/ c = "Risk percentage must be between 0 and 100."
              /\ (a.risk_percentage[1] < 0 \/ a.risk_percentage[1] > 100 * a.risk_percentage[2])
        \/ c = "Leverage must be greater than zero." /\ a.leverage[1] <= 0
        \/ c = "Quantity must be greater than zero."
              /\ a.quantity # None /\ a.quantity[1][1] <= 0
        \/ c = "Invalid order type. Please use BUY or SELL."
              /\ a.order_type \notin {"BUY", "Buy", "buy", "SELL", "Sell", "sell"}}

(* C9: an invocation of trade_ephemeral in which a parameter fails its     *)
(* precondition is answered with a private error message naming a          *)
(* violated constraint, leaves SECRET_STORE unchanged and posts no reveal  *)
(* control (no message of the handler carries one).                        *)
C9_InvalidRejected ==
    [][(last'.kind = "cmd" /\ Failed(last'.args) # {}) =>
          /\ SECRET_STORE' = SECRET_STORE
          /\ posted' = posted
          /\ last'.view = None
          /\ \E c \in Failed(last'.args) : last'.calls[1] = ErrorMessage(c)
          /\ \A k \in 1..Len(last'.calls) :
                last'.calls[k].ephemeral /\ last'.calls[k].view = None]_vars

(* An invocation with an invalid order type was answered while a payload   *)
(* was in the store.                                                       *)
C9_Witness ==
    /\ last.kind = "cmd"
    /\ Failed(last.args) = {"Invalid order type. Please use BUY or SELL."}
    /\ last.net[1]
    /\ SECRET_STORE[last.id] # None

IsEnhanced(secret) == IsDict(secret) /\ secret.type = "trade_ephemeral_enhanced"

(* C10: every payload the command stores is an EnhancedTrade whose         *)
(* user_metrics equals its trader_metrics, both present exactly when a     *)
(* trader_balance was supplied; its reveal then shows a position overview  *)
(* with a Trader Position and a Your Position field of identical value;    *)
(* for entry 100, sl 95, balance 1000, leverage 5 the stored price risk    *)
(* percentage is 5 and the trader's risk amount 250.                       *)
C10_ViewerMetricsAreTraders ==
    /\ (last.kind = "cmd" /\ last.wrote) =>
          LET stored == SECRET_STORE[last.id][1]
          IN  /\ IsEnhanced(stored)
              /\ stored.user_metrics = stored.trader_metrics
              /\ stored.trader_metrics # None <=> last.args.trader_balance # None
              /\ (/\ last.args.entry = R(100)
                  /\ last.args.sl = R(95)
                  /\ last.args.trader_balance = Some(R(1000))
                  /\ last.args.leverage = R(5)) =>
                    /\ stored.price_risk_percentage = R(5)
                    /\ stored.trader_metrics[1].risk_amount = R(250)
    /\ \A i \in Ids :
          (SECRET_STORE[i] # None /\ IsEnhanced(SECRET_STORE[i][1])) =>
              SECRET_STORE[i][1].user_metrics = SECRET_STORE[i][1].trader_metrics
    /\ (last.kind = "press" /\ last.outcome = "Rendered" /\ IsEnhanced(last.secret[1])
        /\ last.secret[1].trader_metrics # None) =>
          LET docs == last.response.embeds
          IN  /\ Len(docs) >= 2
              /\ DocKind(docs[2]) = "overview"
              /\ FieldNames(docs[2]) = <<"Trader Position", "Your Position">>
              /\ docs[2].fields[1].value = docs[2].fields[2].value

(* A payload stored with a balance has been revealed. *)
C10_Witness ==
    /\ last.kind = "press"
    /\ last.outcome = "Rendered"
    /\ IsEnhanced(last.secret[1])
    /\ last.secret[1].trader_metrics # None
    /\ last.secret[1].trader_metrics[1].risk_amount = R(250)

C12_ChecksSubsume ==
    (last.kind = "cmd" /\ Validate(last.args) = None) =>
        LET a == last.args
        IN  /\ calculate_risk_percentage_from_prices(a.entry, a.sl).ok
            /\ a.trader_balance # None =>
                   calculate_position(a.trader_balance[1], a.entry, a.sl,
                                      a.risk_percentage, a.leverage, a.quantity).ok
            /\ last.wrote
            /\ \A k \in 1..Len(last.calls) : last.calls[k].content[1] # Lit("Error: ")

(* An invocation with a balance and a quantity passed the checks and both  *)
(* calculator calls.                                                       *)
C12_Witness ==
    /\ last.kind = "cmd"
    /\ Validate(last.args) = None
    /\ last.args.trader_balance # None
    /\ last.args.quantity # None
    /\ last.wrote

(* C13: the handler writes the payload under the interaction id before it  *)
(* posts the locked message, and the control it posts is bound to that id: *)
(* in every reachable state, also while a handler still awaits its send,   *)
(* each posted control refers to an id present in SECRET_STORE, and a      *)
(* press on a posted control that passes the gate never ends NotFound.     *)
C13_StoreBeforePost ==
    /\ \A i \in posted : SECRET_STORE[i] # None
    /\ (sending # None /\ sending[1].h.view # None) =>
          /\ sending[1].h.view = Some(sending[1].id)
          /\ sending[1].h.calls[1].view = UnlockView(sending[1].id)
          /\ sending[1].h.wrote
    /\ (last.kind = "cmd" /\ last.view # None) =>
          /\ last.view = Some(last.id)
          /\ last.calls[1].view = UnlockView(last.id)
          /\ last.wrote
    /\ (last.kind = "press" /\ last.id \in posted /\ last.outcome # "Denied") =>
          /\ last.outcome = "Rendered"
          /\ last.secret = SECRET_STORE[last.id]

(* The button of a locked message was pressed, and the payload rendered,   *)
(* while the handler that posted it was still awaiting its send.           *)
C13_Witness ==
    /\ last.kind = "press"
    /\ sending # None
    /\ sending[1].id = last.id
    /\ sending[1].h.view # None
    /\ last.id \in posted
    /\ last.outcome = "Rendered"

====
